---- MODULE Spec2Model ----
(***************************************************************************)
(* Model of airscape.Fan (src/airscape/__init__.py): a synchronous proxy   *)
(* for an AirScape whole house fan.  The proxy keeps the last parsed       *)
(* status payload in _data, sends numeric commands to fanspd.cgi and       *)
(* re-reads status.json.cgi after each one.                                *)
(*                                                                         *)
(* One step of the model is one statement group of the code between two    *)
(* HTTP requests; every HTTP request is a step of its own, so that the     *)
(* order of requests, their failures and what the fan does in between are  *)
(* all visible.  The fan itself is the environment: it applies commands,   *)
(* opens its damper doors, and may lag or switch off on its own.           *)
(***************************************************************************)
EXTENDS Integers, Sequences, FiniteSets, TLC

VARIABLES
    exists,     \* a Fan instance has been constructed
    data,       \* Fan._data: the cached status snapshot
    lastbody,   \* raw text of the last status response that was parsed
    dev,        \* the fan: what it would report now, and a power-on it has not acted on yet
    op,         \* the operation in progress, or the last one when pc = "idle"
    arg,        \* its argument (0 when it has none)
    pc,         \* position of the single thread of control
    cmd,        \* parameter cmd of set_device_state
    command,    \* local variable command of the speed setter
    ret,        \* where set_device_state returns to
    via,        \* who called get_device_state
    result,     \* how the operation ended: "ok" or the exception raised
    got,        \* value returned by the last read accessor
    log,        \* requests and sleeps of the operation, in order
    start,      \* _data when the operation was called
    drift       \* since the call the fan lagged, was out of step with _data, or switched off

vars == <<exists, data, lastbody, dev, op, arg, pc, cmd, command, ret, via,
          result, got, log, start, drift>>

---------------------------------------------------------------------------
(* Bounds of the model *)

\* Highest speed of a fan whose model is not in MAX_FAN_SPEED.
MaxReported == 11
\* Highest speed a caller asks for.
MaxTarget == 6
\* Most requests and sleeps followed within one operation.
MaxLog == 12

---------------------------------------------------------------------------
(* Constants of the program *)

\* const.MAX_FAN_SPEED: model identifier -> highest speed.  const.py is not
\* part of the sources at hand; one entry stands for the table.
MAX_FAN_SPEED == [m \in {"AS-1"} |-> 5]

\* Default of MAX_FAN_SPEED.get(model, 10).
DefaultMaxSpeed == 10

\* dir values of fanspd.cgi.
DirSpeedUp == 1
DirAddTime == 2
DirSlowDown == 3
DirOff == 4

\* sleep() arguments in milliseconds.
DoorSleepMs == 250
StepSleepMs == 750

Models == {"AS-1", "other"}

---------------------------------------------------------------------------
(* The status payload and its parsing *)

\* A line of the status text: lead = it starts with white space, key = the
\* word after an opening quote at its start ("" when there is none), diag =
\* the text server_response" occurs in it.
Line(lead, key, val, diag) ==
    [lead |-> lead, key |-> key, val |-> val, diag |-> diag, blank |-> FALSE]

\* A line that is empty or white space only.
BlankLine == [lead |-> FALSE, key |-> "", val |-> 0, diag |-> FALSE, blank |-> TRUE]

\* What the fan answers on status.json.cgi.
StatusBody(d) ==
    << Line(TRUE, "fanspd", d.fanspd, FALSE),
       Line(TRUE, "doorinprocess", d.doorinprocess, FALSE),
       Line(TRUE, "server_response", "garbled", TRUE),
       Line(TRUE, "model", d.model, FALSE) >>

\* The pattern without its lookahead: lines mentioning server_response stay.
KeepLine_no_lookahead(l) == l.lead /\ l.key # ""

\* The regular expression of get_device_state applied to one line: white
\* space, a quote and a word, and no server_response" after the white space.
KeepLine(l) == l.lead /\ l.key # "" /\ ~l.diag

\* Line i of the text is matched.  \s+ also runs over line breaks, so the
\* white space before the quote may be that of a blank line just above.
Kept(body, i) ==
    /\ ~body[i].blank
    /\ KeepLine([body[i] EXCEPT !.lead = @ \/ (i > 1 /\ body[i - 1].blank)])

\* re.findall, join and json.loads: the kept lines as an object; a key given
\* twice keeps its last value.
ParseStatus(body) ==
    LET kept == {i \in 1..Len(body) : Kept(body, i)}
        keys == {body[i].key : i \in kept}
        last(k) == CHOOSE i \in kept : body[i].key = k /\
                      \A j \in kept : body[j].key = k => j <= i
    IN  [k \in keys |-> body[last(k)].val]

\* No snapshot: _data of an object that was never constructed.
NoData == [k \in {} |-> 0]

\* Python's bool() of an integer.
bool(x) == x # 0

---------------------------------------------------------------------------
(* Read accessors *)

is_on == bool(data.fanspd)

speed == data.fanspd

MaxSpeedOf(m) == IF m \in DOMAIN MAX_FAN_SPEED THEN MAX_FAN_SPEED[m] ELSE DefaultMaxSpeed

max_speed == MaxSpeedOf(data.model)

---------------------------------------------------------------------------
(* The fan *)

\* Highest speed the fan itself runs at.
DevMax(m) == IF m \in DOMAIN MAX_FAN_SPEED THEN MAX_FAN_SPEED[m] ELSE MaxReported

\* Effect of a processed command on the fan.
ApplyCmd(d, c) ==
    CASE c = DirSpeedUp ->
            IF d.fanspd = 0 THEN [d EXCEPT !.doorinprocess = 1]
            ELSE IF d.fanspd < DevMax(d.model) THEN [d EXCEPT !.fanspd = @ + 1]
            ELSE d
      [] c = DirSlowDown ->
            IF d.fanspd > 0 THEN [d EXCEPT !.fanspd = @ - 1] ELSE d
      [] c = DirOff -> [d EXCEPT !.fanspd = 0, !.doorinprocess = 0]
      [] OTHER -> d

\* The fan with its waiting command processed.
Flush(d) == IF d.pend = 0 THEN d ELSE [ApplyCmd(d, d.pend) EXCEPT !.pend = 0]

\* The fan reports what _data holds.
InSync == exists /\ dev.pend = 0 /\ dev.fanspd = data.fanspd
             /\ dev.doorinprocess = data.doorinprocess

---------------------------------------------------------------------------
(* Log entries *)

Entry(kind, code, res, who) == [kind |-> kind, code |-> code, res |-> res, via |-> who]

\* What requests.get raises: ConnectionError (a connect timeout is one of
\* them) or ReadTimeout.
Failures == {"ConnectionError", "ReadTimeout"}

\* The except clauses: the library's exception for a requests exception.
Raised(exc) == IF exc = "ConnectionError" THEN "ConnectionError" ELSE "Timeout"

Init ==
    /\ exists = FALSE
    /\ data = NoData
    /\ lastbody = <<>>
    /\ \E m \in Models : \E s \in 0..DevMax(m) :
          dev = [fanspd |-> s, doorinprocess |-> 0, model |-> m, pend |-> 0]
    /\ op = "none"
    /\ arg = 0
    /\ pc = "idle"
    /\ cmd = 0
    /\ command = 0
    /\ ret = "none"
    /\ via = "none"
    /\ result = "none"
    /\ got = [none |-> 0]
    /\ log = <<>>
    /\ start = NoData
    /\ drift = FALSE

---------------------------------------------------------------------------
(* Calls and returns *)

\* A caller invokes an operation on the proxy.
Enter(name, a) ==
    /\ pc = "idle"
    /\ op' = name
    /\ arg' = a
    /\ log' = <<>>
    /\ start' = data
    /\ drift' = ~InSync
    /\ got' = [none |-> 0]
    /\ UNCHANGED <<exists, data, lastbody, dev>>

\* The operation returns normally.
Return ==
    /\ pc' = "idle"
    /\ result' = "ok"
    /\ cmd' = 0
    /\ command' = 0
    /\ ret' = "none"
    /\ via' = "none"

\* The operation ends with the library's exception for exc.
Raise(exc) ==
    /\ pc' = "idle"
    /\ result' = Raised(exc)
    /\ cmd' = 0
    /\ command' = 0
    /\ ret' = "none"
    /\ via' = "none"

\* self.set_device_state(c), called from the place r.
CallSetDeviceState(c, r) ==
    /\ pc' = "cmd"
    /\ cmd' = c
    /\ ret' = r
    /\ result' = "none"
    /\ via' = "none"

\* The setter with "and not fanspd" left out of its first condition.
is_on_branch_always_on(state) ==
    IF bool(state) THEN "on"
    ELSE IF ~bool(state) THEN "off"
    ELSE "pass"

\* Which branch the is_on setter takes.
is_on_branch(state) ==
    IF bool(state) /\ ~bool(data.fanspd) THEN "on"
    ELSE IF ~bool(state) THEN "off"
    ELSE "pass"

\* Body of the is_on setter up to its first request; after = what follows
\* the assignment in the caller when the setter does nothing.
is_on_setter(state, after) ==
    CASE is_on_branch(state) = "on" ->
            CallSetDeviceState(DirSpeedUp, "door") /\ command' = 0
      [] is_on_branch(state) = "off" ->
            CallSetDeviceState(DirOff, "return") /\ command' = 0
      [] OTHER ->
            IF after = "return" THEN Return
            ELSE /\ pc' = after
                 /\ result' = "none"
                 /\ UNCHANGED <<cmd, command, ret, via>>

\* Fan(host): __init__ up to the status request.
Fan_init ==
    /\ ~exists
    /\ Enter("__init__", 0)
    /\ pc' = "status"
    /\ via' = "__init__"
    /\ result' = "none"
    /\ UNCHANGED <<cmd, command, ret>>

\* fan.is_on = state
set_is_on ==
    \E state \in {0, 1} :
        /\ exists
        /\ Enter("is_on.set", state)
        /\ is_on_setter(state, "return")

\* The speed setter treating speed 0 as off only while the fan is on.
speed_branch_off_when_on(s) ==
    IF s = 0 /\ is_on THEN "off"
    ELSE IF ~is_on THEN "on"
    ELSE "adjust"

\* The speed setter without "if not self.is_on: self.is_on = True".
speed_branch_skip_on(s) ==
    IF s = 0 THEN "off"
    ELSE "adjust"

\* Guards of the speed setter before it chooses a direction.
speed_branch(s) ==
    IF s = 0 THEN "off"
    ELSE IF ~is_on THEN "on"
    ELSE "adjust"

\* fan.speed = s
set_speed ==
    \E s \in 0..MaxTarget :
        /\ exists
        /\ Enter("speed.set", s)
        /\ CASE speed_branch(s) = "off" -> is_on_setter(0, "return")
             [] speed_branch(s) = "on" -> is_on_setter(1, "dir")
             [] OTHER -> /\ pc' = "dir"
                         /\ result' = "none"
                         /\ UNCHANGED <<cmd, command, ret, via>>

\* speed_up without its lower limit.
speed_up_guard_no_floor == data.fanspd < MaxSpeedOf(data.model)

\* Condition of speed_up.
speed_up_guard == 1 <= data.fanspd /\ data.fanspd < MaxSpeedOf(data.model)

speed_up ==
    /\ exists
    /\ Enter("speed_up", 0)
    /\ IF speed_up_guard
       THEN CallSetDeviceState(DirSpeedUp, "return") /\ command' = 0
       ELSE Return

\* slow_down stepping down from speed 1 too.
slow_down_guard_from_one == data.fanspd >= 1

\* Condition of slow_down.
slow_down_guard == data.fanspd > 1

slow_down ==
    /\ exists
    /\ Enter("slow_down", 0)
    /\ IF slow_down_guard
       THEN CallSetDeviceState(DirSlowDown, "return") /\ command' = 0
       ELSE Return

add_time ==
    /\ exists
    /\ Enter("add_time", 0)
    /\ CallSetDeviceState(DirAddTime, "return")
    /\ command' = 0

\* The read accessors: no request, _data untouched.
Read(name, value) ==
    /\ exists
    /\ pc = "idle"
    /\ op' = name
    /\ arg' = 0
    /\ log' = <<>>
    /\ start' = data
    /\ drift' = ~InSync
    /\ got' = value
    /\ Return
    /\ UNCHANGED <<exists, data, lastbody, dev>>

get_is_on == Read("is_on.get", [is_on |-> is_on])

get_speed == Read("speed.get", [speed |-> speed])

get_max_speed == Read("max_speed.get", [max_speed |-> max_speed])
---------------------------------------------------------------------------
(* set_device_state and get_device_state *)

\* set_device_state reading the state out of the command's own answer.
CommandOk_parses_answer ==
    /\ pc = "cmd"
    /\ Len(log) < MaxLog
    /\ dev' = ApplyCmd(Flush(dev), cmd)
    /\ data' = ParseStatus(StatusBody(dev'))
    /\ log' = Append(log, Entry("cmd", cmd, "ok", "set_device_state"))
    /\ pc' = "status"
    /\ via' = "set_device_state"
    /\ UNCHANGED <<exists, lastbody, op, arg, cmd, command, ret, result, got, start, drift>>

\* The fan is off and idle: a power-on may take a moment to show.
CanLag(c) == c = DirSpeedUp /\ dev.fanspd = 0 /\ dev.doorinprocess = 0 /\ dev.pend = 0

\* set_device_state: requests.get(command_api, dir=cmd) answers.  The fan has
\* acted on the command when it answers; a power-on may show only later.
CommandOk ==
    /\ pc = "cmd"
    /\ Len(log) < MaxLog
    /\ \E now \in BOOLEAN :
          /\ now \/ CanLag(cmd)
          /\ dev' = IF now THEN ApplyCmd(Flush(dev), cmd)
                    ELSE [Flush(dev) EXCEPT !.pend = cmd]
          /\ drift' = (drift \/ ~now)
    /\ log' = Append(log, Entry("cmd", cmd, "ok", "set_device_state"))
    /\ pc' = "status"
    /\ via' = "set_device_state"
    /\ UNCHANGED <<exists, data, lastbody, op, arg, cmd, command, ret, result, got, start>>

\* set_device_state refreshing in a finally clause: the status is read even
\* though the command failed.
CommandFail_refreshes ==
    /\ pc = "cmd"
    /\ Len(log) < MaxLog
    /\ \E exc \in Failures :
          /\ log' = Append(log, Entry("cmd", cmd, exc, "set_device_state"))
          /\ Raise(exc)
    /\ lastbody' = StatusBody(dev)
    /\ data' = ParseStatus(StatusBody(dev))
    /\ UNCHANGED <<exists, dev, op, arg, got, start, drift>>

\* set_device_state: requests.get raises.  A request that timed out may
\* have reached the fan.
CommandFail ==
    /\ pc = "cmd"
    /\ Len(log) < MaxLog
    /\ \E exc \in Failures :
          /\ log' = Append(log, Entry("cmd", cmd, exc, "set_device_state"))
          /\ Raise(exc)
          /\ \/ dev' = dev
             \/ exc = "ReadTimeout" /\ dev' = ApplyCmd(Flush(dev), cmd)
    /\ UNCHANGED <<exists, data, lastbody, op, arg, got, start, drift>>

\* Where control goes once get_device_state has returned.
AfterStatus ==
    CASE via = "__init__" -> exists' = TRUE /\ Return /\ log' = Append(log, Entry("status", 0, "ok", via))
      [] via = "is_on" \/ ret = "door" ->
            /\ pc' = "door"
            /\ log' = Append(log, Entry("status", 0, "ok", via))
            /\ UNCHANGED <<exists, cmd, command, ret, via, result>>
      [] ret = "step" ->
            /\ pc' = "step"
            /\ log' = log \o << Entry("status", 0, "ok", via),
                                Entry("sleep", StepSleepMs, "ok", "speed") >>
            /\ UNCHANGED <<exists, cmd, command, ret, via, result>>
      [] OTHER -> Return /\ log' = Append(log, Entry("status", 0, "ok", via)) /\ UNCHANGED exists

\* get_device_state: requests.get(status_api) answers and the text is parsed.
StatusOk ==
    /\ pc = "status"
    /\ Len(log) + 1 < MaxLog
    /\ lastbody' = StatusBody(dev)
    /\ data' = ParseStatus(StatusBody(dev))
    /\ AfterStatus
    /\ UNCHANGED <<dev, op, arg, got, start, drift>>

\* get_device_state dropping the snapshot when the request fails.
StatusFail_clears ==
    /\ pc = "status"
    /\ Len(log) < MaxLog
    /\ \E exc \in Failures :
          /\ log' = Append(log, Entry("status", 0, exc, via))
          /\ Raise(exc)
    /\ data' = NoData
    /\ UNCHANGED <<exists, lastbody, dev, op, arg, got, start, drift>>

\* get_device_state swallowing the exception: the constructor completes
\* with no snapshot.
StatusFail_swallows ==
    /\ pc = "status"
    /\ Len(log) < MaxLog
    /\ \E exc \in Failures :
          /\ log' = Append(log, Entry("status", 0, exc, via))
          /\ IF via = "__init__" THEN exists' = TRUE /\ Return
             ELSE exists' = exists /\ Raise(exc)
    /\ UNCHANGED <<data, lastbody, dev, op, arg, got, start, drift>>

\* get_device_state failing after a command, with the snapshot then set to
\* what the command should have done.
StatusFail_guesses ==
    /\ pc = "status"
    /\ Len(log) < MaxLog
    /\ \E exc \in Failures :
          /\ log' = Append(log, Entry("status", 0, exc, via))
          /\ Raise(exc)
    /\ data' = IF via = "set_device_state" /\ cmd = DirOff
               THEN [data EXCEPT !.fanspd = 0]
               ELSE IF via = "set_device_state" /\ cmd = DirSlowDown
               THEN [data EXCEPT !.fanspd = @ - 1]
               ELSE IF via = "set_device_state" /\ cmd = DirSpeedUp /\ data.fanspd > 0
               THEN [data EXCEPT !.fanspd = @ + 1]
               ELSE data
    /\ UNCHANGED <<exists, lastbody, dev, op, arg, got, start, drift>>

\* get_device_state trying again when the request fails.
StatusFail_retries ==
    /\ pc = "status"
    /\ Len(log) < MaxLog
    /\ \E exc \in Failures :
          log' = Append(log, Entry("status", 0, exc, via))
    /\ UNCHANGED <<exists, data, lastbody, dev, op, arg, pc, cmd, command, ret,
                   via, result, got, start, drift>>

\* get_device_state: requests.get raises.
StatusFail ==
    /\ pc = "status"
    /\ Len(log) < MaxLog
    /\ \E exc \in Failures :
          /\ log' = Append(log, Entry("status", 0, exc, via))
          /\ Raise(exc)
    /\ UNCHANGED <<exists, data, lastbody, dev, op, arg, got, start, drift>>

---------------------------------------------------------------------------
(* The loops *)

\* The is_on setter waiting for a speed instead of for the doors.
door_guard_on_speed == ~bool(data.fanspd)

\* Condition of the while loop of the is_on setter.
door_guard == bool(data.doorinprocess)

\* while bool(self._data["doorinprocess"]): sleep(0.25); get_device_state()
door_loop ==
    /\ pc = "door"
    /\ IF door_guard
       THEN /\ Len(log) < MaxLog
            /\ log' = Append(log, Entry("sleep", DoorSleepMs, "ok", "is_on"))
            /\ pc' = "status"
            /\ via' = "is_on"
            /\ UNCHANGED <<cmd, command, ret, result>>
       ELSE /\ log' = log
            /\ IF op = "speed.set"
               THEN pc' = "dir" /\ UNCHANGED <<cmd, command, ret, via, result>>
               ELSE Return
    /\ UNCHANGED <<exists, data, lastbody, dev, op, arg, got, start, drift>>

\* The comparison of the speed setter turned round.
direction_inverted == IF arg > data.fanspd THEN DirSlowDown ELSE DirSpeedUp

\* command = 1; if speed < self._data["fanspd"]: command = 3
direction == IF arg < data.fanspd THEN DirSlowDown ELSE DirSpeedUp

choose_command ==
    /\ pc = "dir"
    /\ command' = direction
    /\ pc' = "step"
    /\ UNCHANGED <<exists, data, lastbody, dev, op, arg, cmd, ret, via, result,
                   got, log, start, drift>>

\* The loop of the speed setter without its test for speed 0.
step_guard_no_zero == data.fanspd # arg

\* The loop of the speed setter running until the fan is off.
step_guard_until_off == data.fanspd # 0

\* Condition of the while loop of the speed setter.
step_guard == data.fanspd # arg /\ data.fanspd # 0

\* The loop of the speed setter choosing its command on every round.
step_loop_rechooses ==
    /\ pc = "step"
    /\ IF step_guard
       THEN /\ pc' = "cmd"
            /\ cmd' = direction
            /\ command' = direction
            /\ ret' = "step"
            /\ UNCHANGED <<via, result>>
       ELSE Return
    /\ UNCHANGED <<exists, data, lastbody, dev, op, arg, got, log, start, drift>>

\* while fanspd != speed and fanspd != 0: set_device_state(command); sleep
step_loop ==
    /\ pc = "step"
    /\ IF step_guard
       THEN /\ pc' = "cmd"
            /\ cmd' = command
            /\ ret' = "step"
            /\ UNCHANGED <<command, via, result>>
       ELSE Return
    /\ UNCHANGED <<exists, data, lastbody, dev, op, arg, got, log, start, drift>>

---------------------------------------------------------------------------
(* The fan on its own *)

\* The doors have opened far enough: the fan starts.
FanStart ==
    /\ dev.doorinprocess = 1
    /\ dev.fanspd = 0
    /\ dev' = [Flush(dev) EXCEPT !.fanspd = 1]
    /\ UNCHANGED <<exists, data, lastbody, op, arg, pc, cmd, command, ret, via,
                   result, got, log, start, drift>>

\* The doors have finished moving.
DoorDone ==
    /\ dev.doorinprocess = 1
    /\ dev.fanspd > 0
    /\ dev' = [dev EXCEPT !.doorinprocess = 0]
    /\ UNCHANGED <<exists, data, lastbody, op, arg, pc, cmd, command, ret, via,
                   result, got, log, start, drift>>

\* The fan acts on the power-on it had accepted.
DeviceProcess ==
    /\ dev.pend # 0
    /\ dev' = Flush(dev)
    /\ UNCHANGED <<exists, data, lastbody, op, arg, pc, cmd, command, ret, via,
                   result, got, log, start, drift>>

\* The fan is switched off by its timer or at the wall.
DeviceOff ==
    /\ dev.fanspd > 0
    /\ dev' = [dev EXCEPT !.fanspd = 0, !.doorinprocess = 0, !.pend = 0]
    /\ drift' = TRUE
    /\ UNCHANGED <<exists, data, lastbody, op, arg, pc, cmd, command, ret, via,
                   result, got, log, start>>

---------------------------------------------------------------------------
Next ==
    \/ Fan_init
    \/ set_is_on
    \/ set_speed
    \/ speed_up
    \/ slow_down
    \/ add_time
    \/ get_is_on
    \/ get_speed
    \/ get_max_speed
    \/ CommandOk
    \/ CommandFail
    \/ StatusOk
    \/ StatusFail
    \/ door_loop
    \/ choose_command
    \/ step_loop
    \/ FanStart
    \/ DoorDone
    \/ DeviceProcess
    \/ DeviceOff

Spec == Init /\ [][Next]_vars
---------------------------------------------------------------------------
(* The is_on setter under fair scheduling: the program always takes its next
   step and every request is answered in the end, one way or the other.
   Nothing is assumed of the fan: its doors may stay in motion for ever. *)

\* The record of the operation keeps the command, its refresh and the latest
\* rounds of the door loop only, so that the loop can be followed for ever.
Forget ==
    /\ pc = "door"
    /\ Len(log) + 2 >= MaxLog
    /\ Len(log) >= 4
    /\ log' = SubSeq(log, 1, 2) \o SubSeq(log, 5, Len(log))
    /\ UNCHANGED <<exists, data, lastbody, dev, op, arg, pc, cmd, command, ret,
                   via, result, got, start, drift>>

LiveNext ==
    \/ Fan_init
    \/ set_is_on
    \/ CommandOk
    \/ CommandFail
    \/ StatusOk
    \/ StatusFail
    \/ door_loop
    \/ Forget
    \/ FanStart
    \/ DoorDone
    \/ DeviceProcess
    \/ DeviceOff

LiveSpec ==
    /\ Init
    /\ [][LiveNext]_vars
    /\ WF_vars(door_loop)
    /\ WF_vars(Forget)
    /\ WF_vars(CommandOk \/ CommandFail)
    /\ WF_vars(StatusOk \/ StatusFail)

---------------------------------------------------------------------------
(* Parsing on its own: any short status text is parsed once. *)

\* Longest status text parsed.
MaxLines == 3

\* The lines a status text is made of.
TextLines ==
    {BlankLine}
    \cup {Line(lead, "", 0, diag) : lead \in BOOLEAN, diag \in BOOLEAN}
    \cup {Line(lead, key, val, FALSE) :
             lead \in BOOLEAN, key \in {"fanspd", "model"}, val \in {0, 1}}
    \cup {Line(lead, key, 0, TRUE) :
             lead \in BOOLEAN, key \in {"fanspd", "model", "server_response"}}

Texts == UNION {[1..n -> TextLines] : n \in 0..MaxLines}

ParseInit ==
    /\ exists = FALSE
    /\ data = NoData
    /\ lastbody \in Texts
    /\ dev = [fanspd |-> 0, doorinprocess |-> 0, model |-> "other", pend |-> 0]
    /\ op = "get_device_state"
    /\ arg = 0
    /\ pc = "parse"
    /\ cmd = 0
    /\ command = 0
    /\ ret = "none"
    /\ via = "none"
    /\ result = "none"
    /\ got = [none |-> 0]
    /\ log = <<>>
    /\ start = NoData
    /\ drift = FALSE

\* clean_list, clean_text and json.loads of get_device_state on the text.
parse_text ==
    /\ pc = "parse"
    /\ data' = ParseStatus(lastbody)
    /\ pc' = "parsed"
    /\ UNCHANGED <<exists, lastbody, dev, op, arg, cmd, command, ret, via,
                   result, got, log, start, drift>>

ParseNext == parse_text

ParseSpec == ParseInit /\ [][ParseNext]_vars

---------------------------------------------------------------------------
(* Vocabulary of the properties *)

CmdOk(c) == Entry("cmd", c, "ok", "set_device_state")

Refresh == Entry("status", 0, "ok", "set_device_state")

StepSleep == Entry("sleep", StepSleepMs, "ok", "speed")

Last(l) == l[Len(l)]

\* The command requests of a log.
Cmds(l) == SelectSeq(l, LAMBDA e : e.kind = "cmd")

\* The requests (commands and status reads) of a log.
Requests(l) == SelectSeq(l, LAMBDA e : e.kind # "sleep")

AllOk(l) == \A i \in 1..Len(l) : l[i].res = "ok"

Abs(x) == IF x < 0 THEN -x ELSE x

Ended == pc = "idle"

Returned == pc = "idle" /\ result = "ok"

\* The operation is a power-off, asked for either way.
PowerOff == (op = "is_on.set" /\ ~bool(arg)) \/ (op = "speed.set" /\ arg = 0)

---------------------------------------------------------------------------
(* C1: is_on = False and speed = 0 behave alike in every cached state, also
   when the cached speed is 0 already: the only command is one with code 4,
   one status refresh follows it, no step command is sent and no loop is
   entered.  A failing request ends the operation where it fails. *)
C1_PowerOffIsSpeedZero ==
    PowerOff =>
        /\ pc \in {"cmd", "status", "idle"}
        /\ pc = "cmd" => log = <<>> /\ cmd = DirOff /\ ret = "return"
        /\ pc = "status" => log = <<CmdOk(DirOff)>> /\ via = "set_device_state"
                               /\ ret = "return"
        /\ Returned => log = <<CmdOk(DirOff), Refresh>>
        /\ (Ended /\ result # "ok") =>
              \/ /\ Len(log) = 1
                 /\ log[1].kind = "cmd" /\ log[1].code = DirOff
                 /\ log[1].res \in Failures
              \/ /\ Len(log) = 2
                 /\ log[1] = CmdOk(DirOff)
                 /\ log[2].kind = "status" /\ log[2].res \in Failures

\* speed = 0 has returned, called while the cached speed was 0.
C1_Witness ==
    /\ op = "speed.set" /\ arg = 0
    /\ start.fanspd = 0
    /\ Returned
    /\ log = <<CmdOk(DirOff), Refresh>>

(* C2: is_on = True with cached speed 0 and every request answered: command
   1 is sent, the status is polled until doorinprocess is false, and on
   return is_on is true. *)
C2_PowerOnEndsOn ==
    (op = "is_on.set" /\ bool(arg) /\ start.fanspd = 0 /\ Returned /\ AllOk(log)) =>
        /\ Len(log) >= 2
        /\ log[1] = CmdOk(DirSpeedUp)
        /\ log[2] = Refresh
        /\ \A i \in 3..Len(log) : log[i].kind \in {"sleep", "status"}
        /\ ~bool(data.doorinprocess)
        /\ is_on

\* The same call: everything the claim says but the final is_on.
C2_PowerOnPolls ==
    (op = "is_on.set" /\ bool(arg) /\ start.fanspd = 0 /\ Returned /\ AllOk(log)) =>
        /\ Len(log) >= 2
        /\ log[1] = CmdOk(DirSpeedUp)
        /\ log[2] = Refresh
        /\ \A i \in 3..Len(log) : log[i].kind \in {"sleep", "status"}
        /\ ~bool(data.doorinprocess)

(* C3: the fan runs at speed n = cached speed and moves by one per step
   command.  speed = t with 1 <= t < n sends n - t commands 3, with
   n < t <= max_speed t - n commands 1; a refresh follows each, no other
   command is sent, and the loop ends when the cached speed is t. *)
StepRun ==
    /\ op = "speed.set"
    /\ ~drift
    /\ AllOk(log)
    /\ start.fanspd >= 1
    /\ arg >= 1
    /\ arg # start.fanspd
    /\ arg > start.fanspd => arg <= MaxSpeedOf(start.model)

C3_StepsToTarget ==
    StepRun =>
        LET n == start.fanspd
            code == IF arg < n THEN DirSlowDown ELSE DirSpeedUp
            k == Len(Cmds(log))
        IN  /\ \A i \in 1..Len(log) :
                  log[i] = CASE i % 3 = 1 -> CmdOk(code)
                             [] i % 3 = 2 -> Refresh
                             [] OTHER -> StepSleep
            /\ pc \in {"dir", "step", "idle"} => Len(log) = 3 * k
            /\ pc \in {"dir", "step", "idle"} => Abs(data.fanspd - n) = k
            /\ k <= Abs(n - arg)
            /\ Ended => result = "ok" /\ data.fanspd = arg /\ k = Abs(n - arg)

\* The scenario of the specification: from speed 5 to speed 2.
C3_Witness ==
    /\ StepRun
    /\ start.fanspd = 5 /\ arg = 2
    /\ Returned
    /\ Len(Cmds(log)) = 3

(* C4: a command request that fails ends the operation with ConnectionError
   (connection failure) or Timeout (read timeout); no status request is made
   and the snapshot stays what it was before the command. *)
C4_CommandFailureKeepsCache ==
    [][ (pc = "cmd" /\ Len(log') = Len(log) + 1 /\ Last(log').res \in Failures) =>
            /\ pc' = "idle"
            /\ Last(log').kind = "cmd"
            /\ Last(log').res = "ConnectionError" => result' = "ConnectionError"
            /\ Last(log').res = "ReadTimeout" => result' = "Timeout"
            /\ SubSeq(log', 1, Len(log)) = log
            /\ data' = data
            /\ lastbody' = lastbody ]_vars

\* speed_up has raised ConnectionError on its command.
C4_Witness ==
    /\ op = "speed_up"
    /\ Ended /\ result = "ConnectionError"
    /\ Len(log) = 1 /\ log[1].kind = "cmd" /\ log[1].res = "ConnectionError"
    /\ data = start

(* C5: speed_up sends nothing when the cached speed is 0 or at least the
   model's maximum (10 for a model not in the table); with the cached speed
   in [1, maximum) it sends one command, with code 1. *)
C5_SpeedUpGuard ==
    op = "speed_up" =>
        LET s == start.fanspd
            m == IF start.model \in DOMAIN MAX_FAN_SPEED
                 THEN MAX_FAN_SPEED[start.model] ELSE 10
        IN  IF s = 0 \/ s >= m
            THEN log = <<>> /\ Returned
            ELSE /\ pc \in {"cmd", "status", "idle"}
                 /\ pc = "cmd" => log = <<>> /\ cmd = DirSpeedUp
                 /\ pc # "cmd" =>
                       /\ Len(Cmds(log)) = 1
                       /\ log[1].kind = "cmd" /\ log[1].code = DirSpeedUp

\* speed_up did nothing at speed 10 of a model that is not in the table.
C5_Witness ==
    /\ op = "speed_up"
    /\ start.model \notin DOMAIN MAX_FAN_SPEED
    /\ start.fanspd = 10
    /\ Returned
    /\ log = <<>>

(* C6: slow_down sends nothing when the cached speed is at most 1; above 1
   it sends one command, with code 3. *)
C6_SlowDownGuard ==
    op = "slow_down" =>
        IF start.fanspd <= 1
        THEN log = <<>> /\ Returned
        ELSE /\ pc \in {"cmd", "status", "idle"}
             /\ pc = "cmd" => log = <<>> /\ cmd = DirSlowDown
             /\ pc # "cmd" =>
                   /\ Len(Cmds(log)) = 1
                   /\ log[1].kind = "cmd" /\ log[1].code = DirSlowDown

\* slow_down did nothing at speed 1.
C6_Witness ==
    /\ op = "slow_down"
    /\ start.fanspd = 1
    /\ Returned
    /\ log = <<>>

(* C7: is_on = True while the cached speed is not 0 does nothing: no
   request, no polling (whatever the cached doorinprocess), snapshot as it
   was. *)
C7_PowerOnWhenOn ==
    (op = "is_on.set" /\ bool(arg) /\ bool(start.fanspd)) =>
        /\ Returned
        /\ log = <<>>
        /\ data = start

\* is_on = True did nothing although the cached doors were moving.
C7_Witness ==
    /\ op = "is_on.set" /\ bool(arg)
    /\ bool(start.fanspd)
    /\ bool(start.doorinprocess)
    /\ Returned
    /\ log = <<>>

(* C8: an answered command request is followed at once by one status request
   of set_device_state, before another command and before the operation
   ends; the command's answer does not touch the snapshot. *)
C8_LogShape ==
    \A i \in 1..Len(log) :
        /\ (log[i].kind = "cmd" /\ log[i].res = "ok") =>
              IF i = Len(log)
              THEN pc = "status" /\ via = "set_device_state"
              ELSE /\ log[i + 1].kind = "status"
                   /\ log[i + 1].via = "set_device_state"
        /\ (log[i].kind = "status" /\ log[i].via = "set_device_state") =>
              /\ i > 1
              /\ log[i - 1].kind = "cmd" /\ log[i - 1].res = "ok"

C8_CommandThenRefresh ==
    /\ []C8_LogShape
    /\ [][pc = "cmd" => data' = data /\ lastbody' = lastbody]_vars

\* A speed change that took two commands has returned.
C8_Witness ==
    /\ op = "speed.set"
    /\ Returned
    /\ Len(Cmds(log)) = 2

(* C9: the snapshot of a constructed proxy is the parsed text of the last
   status response; only a status read replaces it, and it replaces it as a
   whole; the read accessors send nothing, leave it alone and answer from it,
   is_on being true iff the cached speed is not 0. *)
C9_ReadsAnswerFromCache ==
    /\ op = "is_on.get" =>
          log = <<>> /\ Returned /\ data = start /\ got.is_on = (data.fanspd # 0)
    /\ op = "speed.get" =>
          log = <<>> /\ Returned /\ data = start /\ got.speed = data.fanspd
    /\ op = "max_speed.get" =>
          /\ log = <<>> /\ Returned /\ data = start
          /\ got.max_speed = IF data.model \in DOMAIN MAX_FAN_SPEED
                             THEN MAX_FAN_SPEED[data.model] ELSE 10

C9_CacheIsLastFetch ==
    /\ [](exists => data = ParseStatus(lastbody))
    /\ []C9_ReadsAnswerFromCache
    /\ [][data' # data =>
            /\ pc = "status"
            /\ Last(Requests(log')).kind = "status"
            /\ Last(Requests(log')).res = "ok"
            /\ data' = ParseStatus(StatusBody(dev))]_vars

\* is_on was read while the fan was cached as running.
C9_Witness ==
    /\ op = "is_on.get"
    /\ got.is_on = TRUE
    /\ exists
    /\ data.fanspd = 3

(* C10: the constructor makes one status request and no command request; if
   it fails the constructor raises ConnectionError or Timeout and no proxy
   and no snapshot exist; if it succeeds the snapshot is the fetched state. *)
C10_ConstructionAllOrNothing ==
    /\ ~exists => data = NoData
    /\ op = "__init__" =>
          /\ pc \in {"status", "idle"}
          /\ pc = "status" => log = <<>> /\ ~exists
          /\ Ended =>
                /\ Len(log) = 1
                /\ log[1].kind = "status"
          /\ Returned =>
                /\ exists
                /\ log[1].res = "ok"
                /\ lastbody # <<>>
                /\ data = ParseStatus(lastbody)
                /\ data.fanspd = lastbody[1].val
          /\ (Ended /\ result # "ok") =>
                /\ ~exists
                /\ data = NoData
                /\ log[1].res \in Failures
                /\ result = IF log[1].res = "ConnectionError"
                            THEN "ConnectionError" ELSE "Timeout"

\* The constructor has raised Timeout.
C10_Witness ==
    /\ op = "__init__"
    /\ Ended /\ result = "Timeout"
    /\ ~exists
    /\ data = NoData

(* C11: when a command request is answered and the refresh after it fails,
   the operation ends with the error and the snapshot is what it was before
   the command; the fan may have acted on the command, so the snapshot can
   differ from the fan until a status read succeeds again. *)
RefreshFailed ==
    /\ Ended
    /\ Len(log) >= 2
    /\ Last(log).kind = "status" /\ Last(log).via = "set_device_state"
    /\ Last(log).res \in Failures

C11_RefreshFailureKeepsCache ==
    /\ [](RefreshFailed =>
            /\ result = Raised(Last(log).res)
            /\ log[Len(log) - 1].kind = "cmd" /\ log[Len(log) - 1].res = "ok"
            /\ Len(Cmds(log)) = 1 /\ start # NoData => data = start)
    /\ [][(pc = "cmd" /\ pc' = "status") => data' = data]_vars
    /\ [][(pc = "status" /\ via = "set_device_state" /\ pc' = "idle" /\ result' # "ok") =>
            data' = data /\ lastbody' = lastbody]_vars
    /\ [][(pc = "status" /\ pc' # "status" /\ result' \in {"none", "ok"}) =>
            data'.fanspd = dev.fanspd /\ data'.doorinprocess = dev.doorinprocess]_vars

\* slow_down ended with an error on its refresh; the fan has slowed down,
\* the snapshot has not.
C11_Witness ==
    /\ op = "slow_down"
    /\ RefreshFailed
    /\ result \in {"ConnectionError", "Timeout"}
    /\ data = start
    /\ dev.fanspd = start.fanspd - 1

(* C12: a failed request is the last request of its operation, which ends
   with the exception for that failure; this holds for every operation and
   every place in it, the door loop and the step loop included. *)
C12_NoRetry ==
    /\ \A i \in 1..Len(log) :
          log[i].res # "ok" =>
              /\ i = Len(log)
              /\ Ended
              /\ result = IF log[i].res = "ConnectionError"
                          THEN "ConnectionError" ELSE "Timeout"
    /\ (Ended /\ result \notin {"ok", "none"}) =>
          log # <<>> /\ Last(log).res \in Failures

\* is_on = True has raised from a status read of its door loop.
C12_Witness ==
    /\ op = "is_on.set"
    /\ Ended
    /\ result = "Timeout"
    /\ Last(log).kind = "status" /\ Last(log).via = "is_on"
    /\ Last(log).res = "ReadTimeout"

(* C13 as claimed: every line with server_response in it is left out, every
   other line of the shape "key": value is kept, and the snapshot holds
   exactly the fields of those other lines. *)
Shaped(l) == ~l.blank /\ l.key # ""

C13_KeepsEveryOtherLine ==
    pc = "parsed" =>
        DOMAIN data = {lastbody[i].key :
                          i \in {j \in 1..Len(lastbody) :
                                    Shaped(lastbody[j]) /\ ~lastbody[j].diag}}

(* C13 amended: every line with server_response in it is left out; every
   other line that has white space (its own, or the line break of a blank
   line above it) before its quoted key is kept; the snapshot holds exactly
   the fields of those lines, the last value of each. *)
Wanted(i) ==
    /\ Shaped(lastbody[i])
    /\ ~lastbody[i].diag
    /\ lastbody[i].lead \/ (i > 1 /\ lastbody[i - 1].blank)

C13_KeepsIndentedLines ==
    pc = "parsed" =>
        LET want == {i \in 1..Len(lastbody) : Wanted(i)}
        IN  /\ DOMAIN data = {lastbody[i].key : i \in want}
            /\ \A i \in want :
                  (\A j \in want : lastbody[j].key = lastbody[i].key => j <= i)
                      => data[lastbody[i].key] = lastbody[i].val

\* A server_response line between two kept lines has been left out.
C13_Witness ==
    /\ pc = "parsed"
    /\ Len(lastbody) = 3
    /\ lastbody[2].key = "server_response" /\ lastbody[2].lead
    /\ DOMAIN data = {"fanspd", "model"}

(* C14 as claimed: whenever is_on = ..., speed = ..., speed_up, slow_down or
   add_time has returned normally, the cached speed lies between 0 and the
   maximum speed of the cached model. *)
C14_SettledSpeedInRange ==
    (op \in {"is_on.set", "speed.set", "speed_up", "slow_down", "add_time"} /\ Returned)
        => data.fanspd \in 0..MaxSpeedOf(data.model)

(* C15: when speed = target with target # 0 returns normally the cached
   speed is the target or 0; the loop sends one more step command, the one
   chosen before, exactly when the cached speed is neither the target nor 0,
   and returns otherwise; step commands come from the loop only. *)
C15_StepUntilTargetOrZero ==
    /\ []((op = "speed.set" /\ arg # 0 /\ Returned) => data.fanspd \in {arg, 0})
    /\ [][(pc = "step" /\ pc' # "step") =>
            /\ (pc' = "cmd") <=> (data.fanspd # arg /\ data.fanspd # 0)
            /\ pc' = "cmd" => cmd' = command /\ ret' = "step" /\ log' = log
            /\ pc' # "cmd" => pc' = "idle" /\ result' = "ok"]_vars
    /\ [][(pc' = "cmd" /\ ret' = "step" /\ pc # "cmd") => pc = "step"]_vars

\* The fan was switched off while the setter was stepping: it returned with
\* cached speed 0.
C15_Witness ==
    /\ op = "speed.set" /\ arg # 0 /\ Returned
    /\ start.fanspd # 0
    /\ Len(Cmds(log)) >= 1
    /\ data.fanspd = 0

\* speed = target, target # 0, called with cached speed 0.
SpeedFromOff == op = "speed.set" /\ arg # 0 /\ start.fanspd = 0

(* C16: when speed = target (target # 0) is called with cached speed 0 the
   first request is the command with code 1; the direction is chosen only
   once the door loop has seen doorinprocess false in a status just read, and
   a second command is only ever sent by the step loop after that. *)
C16_PowerOnBeforeSteps ==
    /\ [](SpeedFromOff =>
            /\ log = <<>> => pc = "cmd" /\ cmd = DirSpeedUp /\ ret = "door"
            /\ log # <<>> => log[1].kind = "cmd" /\ log[1].code = DirSpeedUp
            /\ (\E i \in 1..Len(log) : log[i].kind = "sleep" /\ log[i].via = "speed")
                   => AllOk(SubSeq(log, 1, 2)) /\ log[2].kind = "status")
    /\ [][(SpeedFromOff' /\ pc' = "dir" /\ pc # "dir") =>
            /\ pc = "door"
            /\ ~bool(data.doorinprocess)
            /\ data' = data /\ log' = log
            /\ Last(log).kind = "status" /\ Last(log).res = "ok"
            /\ Len(Cmds(log)) = 1]_vars
    /\ [][(SpeedFromOff' /\ pc' = "step" /\ pc # "step") =>
            pc = "dir" \/ (pc = "status" /\ ret = "step")]_vars
    /\ [][(SpeedFromOff' /\ pc' = "cmd" /\ pc # "cmd") =>
            (pc = "idle" /\ cmd' = DirSpeedUp /\ ret' = "door") \/ (pc = "step" /\ ret' = "step")]_vars

\* The setter polled the doors, then stepped up to the target.
C16_Witness ==
    /\ SpeedFromOff /\ Returned
    /\ data.fanspd = arg
    /\ Len(Cmds(log)) >= 2
    /\ \E i \in 1..Len(log) : log[i].kind = "sleep" /\ log[i].via = "is_on"

\* is_on = True called with cached speed 0.
PowerOnFromOff == op = "is_on.set" /\ bool(arg) /\ start.fanspd = 0

(* C17: is_on = True called with cached speed 0 never returns normally
   while the cached doorinprocess is true: it returns from the door loop, on
   a status just read that reports doorinprocess false; after the command
   with code 1 and its refresh, the requests are rounds of one sleep of
   0.25 s followed by one status read, with no further command. *)
C17_WaitsForDoor ==
    /\ [](PowerOnFromOff =>
            /\ Returned => ~bool(data.doorinprocess)
                           /\ Len(log) >= 2 /\ Len(log) % 2 = 0 /\ AllOk(log)
            /\ \A i \in 1..Len(log) :
                  /\ i = 1 => log[i].kind = "cmd" /\ log[i].code = DirSpeedUp
                  /\ i = 2 => log[i].kind = "status" /\ log[i].via = "set_device_state"
                  /\ (i >= 3 /\ i % 2 = 1) => log[i] = Entry("sleep", DoorSleepMs, "ok", "is_on")
                  /\ (i >= 4 /\ i % 2 = 0) => log[i].kind = "status" /\ log[i].via = "is_on")
    /\ [][(PowerOnFromOff' /\ Returned' /\ ~Ended) =>
            /\ pc = "door"
            /\ ~bool(data.doorinprocess)
            /\ data' = data /\ log' = log
            /\ Last(log).kind = "status" /\ Last(log).res = "ok"]_vars
    /\ [][(PowerOnFromOff /\ pc = "door" /\ pc' # "door") =>
            IF bool(data.doorinprocess)
            THEN pc' = "status" /\ log' = Append(log, Entry("sleep", DoorSleepMs, "ok", "is_on"))
            ELSE Returned']_vars

\* The setter returned after polling the doors at least twice.
C17_Witness ==
    /\ PowerOnFromOff /\ Returned
    /\ Len(log) >= 6
    /\ is_on

(* C19: within speed = target (target # 0) the command is chosen once, when
   the power-on sequence (if any) is over, from the cached speed: 3 if the
   target is below it, 1 otherwise; every step command of the loop is that
   command, whatever the cached speed has become. *)
C19_DirectionChosenOnce ==
    /\ [][(pc = "dir" /\ pc' # "dir") =>
            /\ pc' = "step"
            /\ command' = IF arg < data.fanspd THEN DirSlowDown ELSE DirSpeedUp]_vars
    /\ [][(pc' = "dir" /\ pc # "dir") =>
            \/ pc = "idle" /\ op' = "speed.set" /\ arg' # 0 /\ bool(data.fanspd)
            \/ pc = "door" /\ op = "speed.set" /\ arg # 0 /\ ~bool(data.doorinprocess)]_vars
    /\ [][command' # command => pc = "dir" \/ pc' = "idle"]_vars
    /\ [][(pc' = "cmd" /\ ret' = "step" /\ pc # "cmd") =>
            cmd' = command /\ command' = command]_vars
    /\ []((op = "speed.set" /\ arg # 0) =>
            /\ (pc \in {"cmd", "status"} /\ ret = "step") => cmd = command
            /\ \A i \in 1..Len(log) :
                  (log[i].kind = "cmd" /\ (i > 1 \/ start.fanspd # 0))
                      => /\ log[i].code \in {DirSpeedUp, DirSlowDown}
                         /\ pc # "idle" => log[i].code = command
                         /\ \A j \in 1..Len(log) :
                               (log[j].kind = "cmd" /\ (j > 1 \/ start.fanspd # 0))
                                   => log[j].code = log[i].code)

\* A further speed-up is being sent although the cached speed is above the
\* target by now.
C19_Witness ==
    /\ op = "speed.set" /\ arg # 0
    /\ pc = "cmd" /\ ret = "step" /\ cmd = DirSpeedUp
    /\ Len(Cmds(log)) >= 1
    /\ data.fanspd > arg

(* C20: when speed = target (target # 0) is called with cached speed 0 and
   the cached speed is still 0 when the door loop ends (the log then ends
   with a status read, not with the sleep of a step), the call has sent one
   command, the power-on with code 1, sends no step command and returns
   normally with cached speed 0. *)
C20_StillOffAfterPowerOn ==
    /\ []((SpeedFromOff /\ pc \in {"dir", "step"} /\ data.fanspd = 0
              /\ Last(log).kind = "status") =>
            /\ Len(Cmds(log)) = 1 /\ log[1] = CmdOk(DirSpeedUp)
            /\ AllOk(log))
    /\ [][(SpeedFromOff /\ pc \in {"dir", "step"} /\ data.fanspd = 0
              /\ Last(log).kind = "status") =>
            /\ log' = log /\ data' = data
            /\ pc' # pc => \/ pc = "dir" /\ pc' = "step"
                           \/ pc = "step" /\ Returned']_vars
    /\ []((SpeedFromOff /\ Returned /\ data.fanspd = 0 /\ Last(log).kind = "status") =>
            Len(Cmds(log)) = 1 /\ log[1] = CmdOk(DirSpeedUp))

\* The setter returned with the fan still reported off, after one command.
C20_Witness ==
    /\ SpeedFromOff /\ Returned
    /\ data.fanspd = 0
    /\ Len(Cmds(log)) = 1
    /\ Last(log).kind = "status"

(* C18 as claimed: is_on = True called with cached speed 0 ends in every
   case, by returning or by raising, after finitely many status polls. *)
C18_PowerOnEnds == (PowerOnFromOff /\ pc # "idle") ~> Ended
====
